---------------------------- MODULE Spec2Model ----------------------------
(***************************************************************************)
(* Orbital AMM: the sphere pool (sphere.rs), the liquidity tick and the    *)
(* multi-tick aggregator (ticks.rs), the HTTP handlers that drive the      *)
(* aggregator (server.rs) and the CLI commands that drive a stand-alone    *)
(* pool (main.rs).                                                         *)
(*                                                                         *)
(* Numbers.  Every f64 of the program is a fixed-point integer counting    *)
(* units of 1/ONE, or one of the three IEEE specials NaN, PInf, NInf.      *)
(* Each f64 operation is one F-operator below, rounding its result to the  *)
(* nearest unit as IEEE rounds to the nearest f64.  The tolerances 1e-12   *)
(* and 1e-8 lie below one unit, so they are 0 units; the 1e-6 of           *)
(* check_invariant, which in f64 is some 10^5 rounding steps wide at the   *)
(* magnitudes used here, is kept wider than the rounding of the            *)
(* fixed-point operations (InvTol units).  ONE is 10 so that the 1000.0 of *)
(* the server's default tick, its radius and their squares are integers    *)
(* TLC can hold.                                                           *)
(***************************************************************************)
EXTENDS Integers, Sequences, FiniteSets, TLC

(* ------------------------------ f64 ----------------------------------- *)

ONE == 10
NaN == 2147483647
PInf == 2147483646
NInf == -2147483646

IsNaN(x) == x = NaN
IsInf(x) == x = PInf \/ x = NInf
IsFinite(x) == ~IsNaN(x) /\ ~IsInf(x)

Sign(x) == IF x < 0 THEN -1 ELSE IF x > 0 THEN 1 ELSE 0
SignedInf(s) == IF s < 0 THEN NInf ELSE PInf

\* n/d rounded to the nearest integer, d > 0
RoundDivPos(n, d) == IF 2 * (n % d) >= d THEN (n \div d) + 1 ELSE n \div d
RoundDiv(n, d) == IF d > 0 THEN RoundDivPos(n, d) ELSE RoundDivPos(-n, -d)

RECURSIVE ISqrtIn(_, _, _)
\* the largest k in lo..hi with k*k <= v
ISqrtIn(v, lo, hi) ==
    IF lo >= hi THEN lo
    ELSE LET mid == (lo + hi + 1) \div 2
         IN  IF mid * mid <= v THEN ISqrtIn(v, mid, hi) ELSE ISqrtIn(v, lo, mid - 1)
\* the square root of v >= 0 rounded to the nearest integer
RoundSqrt(v) ==
    LET k == ISqrtIn(v, 0, 46340)
    IN  IF v - k * k > k THEN k + 1 ELSE k

FAbsInt(x) == IF x < 0 THEN -x ELSE x
\* x*y/ONE rounded to the nearest unit for x, y >= 0; x is split so that the
\* product of two values of 5 digits stays inside TLC's integers
MulAbs(x, y) == (x \div ONE) * y + RoundDivPos((x % ONE) * y, ONE)

FNeg(x) == IF IsNaN(x) THEN NaN ELSE -x
FAdd(x, y) ==
    IF IsNaN(x) \/ IsNaN(y) THEN NaN
    ELSE IF IsInf(x) /\ IsInf(y) THEN (IF x = y THEN x ELSE NaN)
    ELSE IF IsInf(x) THEN x
    ELSE IF IsInf(y) THEN y
    ELSE x + y
FSub(x, y) == FAdd(x, FNeg(y))
FMul(x, y) ==
    IF IsNaN(x) \/ IsNaN(y) THEN NaN
    ELSE IF IsInf(x) \/ IsInf(y)
         THEN (IF x = 0 \/ y = 0 THEN NaN ELSE SignedInf(Sign(x) * Sign(y)))
    ELSE Sign(x) * Sign(y) * MulAbs(FAbsInt(x), FAbsInt(y))
FDiv(x, y) ==
    IF IsNaN(x) \/ IsNaN(y) THEN NaN
    ELSE IF IsInf(x) THEN (IF IsInf(y) THEN NaN
                           ELSE SignedInf(Sign(x) * (IF y < 0 THEN -1 ELSE 1)))
    ELSE IF IsInf(y) THEN 0
    ELSE IF y = 0 THEN (IF x = 0 THEN NaN ELSE SignedInf(Sign(x)))
    ELSE RoundDiv(x * ONE, y)
FSqrt(x) ==
    IF IsNaN(x) \/ x < 0 THEN NaN
    ELSE IF x = PInf THEN PInf
    ELSE RoundSqrt(x * ONE)
FAbs(x) == IF IsNaN(x) THEN NaN ELSE IF x < 0 THEN -x ELSE x
\* f64::max and f64::min return the other operand when one is NaN
FMax(x, y) == IF IsNaN(x) THEN y ELSE IF IsNaN(y) THEN x ELSE IF x >= y THEN x ELSE y
FMin(x, y) == IF IsNaN(x) THEN y ELSE IF IsNaN(y) THEN x ELSE IF x <= y THEN x ELSE y
\* every comparison with NaN is false
FLt(x, y) == ~IsNaN(x) /\ ~IsNaN(y) /\ x < y
FLe(x, y) == ~IsNaN(x) /\ ~IsNaN(y) /\ x <= y
FGt(x, y) == FLt(y, x)
FGe(x, y) == FLe(y, x)
FEq(x, y) == ~IsNaN(x) /\ ~IsNaN(y) /\ x = y

\* an integer literal such as 2.0 or n as f64
Lit(k) == k * ONE

\* F applied to the value of e: a `let` of the source whose right-hand side is
\* evaluated once
With(e, F(_)) == CHOOSE y \in { F(v) : v \in {e} } : TRUE

RECURSIVE FSum(_)
\* Iterator::sum over f64, left to right from 0.0
FSum(s) == IF s = << >> THEN 0 ELSE FAdd(FSum(SubSeq(s, 1, Len(s) - 1)), s[Len(s)])

\* The tolerances of the source, in units.  1e-12 and 1e-8 are less than one
\* unit: for a value x of whole units, x < 1e-12 and x <= 1e-12 both say x <= 0.
Eps12 == 0
Eps8 == 0
InvTol == 20000

(* --------------------------- sphere.rs -------------------------------- *)

\* SphereAMM::solve_radius
SolveRadius(reserves) ==
    IF reserves = << >> THEN 0
    ELSE
    LET n == Lit(Len(reserves))
        sum_x == FSum(reserves)
        sum_x2 == FSum([i \in 1..Len(reserves) |-> FMul(reserves[i], reserves[i])])
        a == FSub(n, Lit(1))
    IN  IF FLe(FAbs(a), Eps12) THEN sum_x
        ELSE
        LET b == FMul(Lit(-2), sum_x)
            c == sum_x2
            disc == FSub(FMul(b, b), FMul(FMul(Lit(4), a), c))
            disc_clamped == IF FLt(disc, 0) /\ FGe(disc, FNeg(Eps12)) THEN 0 ELSE disc
        IN  With(FSqrt(disc_clamped), LAMBDA sqrt_disc :
            With(FDiv(FAdd(FNeg(b), sqrt_disc), FMul(Lit(2), a)), LAMBDA r1 :
                LET r2 == FDiv(FSub(FNeg(b), sqrt_disc), FMul(Lit(2), a))
                IN  IF FGt(r1, 0) THEN r1 ELSE r2))

\* SphereAMM::check_invariant
CheckInvariant(p) ==
    LET lhs == FSum([i \in 1..Len(p.reserves) |->
                      LET diff == FSub(p.radius, p.reserves[i]) IN FMul(diff, diff)])
    IN  FLt(FAbs(FSub(lhs, FMul(p.radius, p.radius))), InvTol)

\* SphereAMM::new without its debug_assert (the caller decides on the build)
NewSphere(token_names, initial_reserves) ==
    [radius |-> SolveRadius(initial_reserves),
     reserves |-> initial_reserves,
     token_names |-> token_names]

\* SphereAMM::index_of: the first position of the token, 0 when it is absent
IndexOf(p, token) ==
    IF \E i \in 1..Len(p.token_names) : p.token_names[i] = token
    THEN CHOOSE i \in 1..Len(p.token_names) :
            /\ p.token_names[i] = token
            /\ \A k \in 1..(i - 1) : p.token_names[k] # token
    ELSE 0

\* SphereAMM::get_spot_price
GetSpotPrice(p, from, to) ==
    LET i == IndexOf(p, from)
        j == IndexOf(p, to)
    IN  IF i = 0 \/ j = 0 THEN [res |-> "TokenNotFound", price |-> 0]
        ELSE LET denom == FSub(p.radius, p.reserves[i])
             IN  IF FLe(FAbs(denom), Eps12)
                 THEN [res |-> "DivisionByZero", price |-> 0]
                 ELSE [res |-> "ok",
                       price |-> FDiv(FSub(p.radius, p.reserves[j]), denom)]

\* The reserves after lines 126-127 of swap: [i] += amount_in, then [j] -= output
SwapApply(reserves, i, j, amount_in, output) ==
    LET r1 == [reserves EXCEPT ![i] = FAdd(reserves[i], amount_in)]
    IN  [r1 EXCEPT ![j] = FSub(r1[j], output)]

\* swap with the reserves written before the liquidity check
SwapWritesFirst(p, from, to, amount_in, dbg) ==
    LET i == IndexOf(p, from)
        j == IndexOf(p, to)
    IN  IF FLe(amount_in, 0) THEN [res |-> "InvalidAmount", out |-> 0, pool |-> p]
        ELSE IF i = 0 \/ j = 0 THEN [res |-> "TokenNotFound", out |-> 0, pool |-> p]
        ELSE
        LET A == FSub(p.radius, p.reserves[i])
            B == FSub(p.radius, p.reserves[j])
            c == FSub(FMul(amount_in, amount_in), FMul(FMul(Lit(2), A), amount_in))
            disc == FSub(FMul(B, B), c)
        IN  IF FLt(disc, 0) THEN [res |-> "ComplexSolution", out |-> 0, pool |-> p]
            ELSE
            With(FAdd(FNeg(B), FSqrt(disc)), LAMBDA output :
            With([p EXCEPT !.reserves = SwapApply(p.reserves, i, j, amount_in, output)],
                 LAMBDA q :
                     IF FLe(output, 0) \/ FGt(output, p.reserves[j])
                     THEN [res |-> "InsufficientLiquidity", out |-> 0, pool |-> q]
                     ELSE IF dbg /\ ~CheckInvariant(q)
                     THEN [res |-> "panic", out |-> 0, pool |-> q]
                     ELSE [res |-> "ok", out |-> output, pool |-> q]))

\* SphereAMM::swap.  res is "ok", one of the four errors, or "panic" when the
\* debug_assert of line 128 fires (a build with debug assertions): the reserves
\* are written before it.
Swap(p, from, to, amount_in, dbg) ==
    LET i == IndexOf(p, from)
        j == IndexOf(p, to)
    IN  IF FLe(amount_in, 0) THEN [res |-> "InvalidAmount", out |-> 0, pool |-> p]
        ELSE IF i = 0 \/ j = 0 THEN [res |-> "TokenNotFound", out |-> 0, pool |-> p]
        ELSE
        LET a == p.reserves[i]
            b == p.reserves[j]
            r == p.radius
            A == FSub(r, a)
            B == FSub(r, b)
            c == FSub(FMul(amount_in, amount_in), FMul(FMul(Lit(2), A), amount_in))
            disc == FSub(FMul(B, B), c)
        IN  IF FLt(disc, 0) THEN [res |-> "ComplexSolution", out |-> 0, pool |-> p]
            ELSE
            With(FAdd(FNeg(B), FSqrt(disc)), LAMBDA output :
                IF FLe(output, 0) \/ FGt(output, b)
                THEN [res |-> "InsufficientLiquidity", out |-> 0, pool |-> p]
                ELSE With([p EXCEPT !.reserves =
                              SwapApply(p.reserves, i, j, amount_in, output)],
                          LAMBDA q :
                              IF dbg /\ ~CheckInvariant(q)
                              THEN [res |-> "panic", out |-> 0, pool |-> q]
                              ELSE [res |-> "ok", out |-> output, pool |-> q]))

(* ---------------------------- ticks.rs -------------------------------- *)

Eps6 == 0
NineTenths == 9
EmptyShares == [l \in {} |-> 0]

\* OrbitalTick::new without the debug_assert of SphereAMM::new
NewTick(names, reserves, plane_constant) ==
    [sphere_amm |-> NewSphere(names, reserves),
     plane_constant |-> plane_constant,
     lp_shares |-> EmptyShares]

\* sphere::decompose_reserves, its first component
ParallelMagnitude(tick) ==
    LET reserves == tick.sphere_amm.reserves
    IN  IF reserves = << >> THEN 0
        ELSE FDiv(FSum(reserves), FSqrt(Lit(Len(reserves))))

\* is_boundary without the abs
IsBoundaryNoAbs(tick) == FLe(FSub(ParallelMagnitude(tick), tick.plane_constant), Eps6)

IsInterior(tick) == FGt(ParallelMagnitude(tick), FAdd(tick.plane_constant, Eps6))
IsBoundary(tick) == FLe(FAbs(FSub(ParallelMagnitude(tick), tick.plane_constant)), Eps6)
Liquidity(tick) == FSum(tick.sphere_amm.reserves)

\* The radius re-solve written out in add_liquidity, withdraw_liquidity and
\* set_reserves: solve_radius with (..).max(0.0) in place of its clamp
ResolveRadius(reserves) ==
    LET n == Lit(Len(reserves))
        sum_x == FSum(reserves)
        sum_x2 == FSum([i \in 1..Len(reserves) |-> FMul(reserves[i], reserves[i])])
        a == FSub(n, Lit(1))
    IN  IF FLe(FAbs(a), Eps12) THEN sum_x
        ELSE
        LET b == FMul(Lit(-2), sum_x)
            c == sum_x2
            disc == FMax(FSub(FMul(b, b), FMul(FMul(Lit(4), a), c)), 0)
        IN  With(FDiv(FAdd(FNeg(b), FSqrt(disc)), FMul(Lit(2), a)), LAMBDA r1 :
                IF FGt(r1, 0) THEN r1
                ELSE FDiv(FSub(FNeg(b), FSqrt(disc)), FMul(Lit(2), a)))

\* zip of the reserves with the amounts, added
ZipAdd(reserves, amounts) ==
    [i \in 1..Len(reserves) |->
        IF i <= Len(amounts) THEN FAdd(reserves[i], amounts[i]) ELSE reserves[i]]

\* the entry overwritten with share_delta
CreditOverwrites(lp_shares, lp_id, share_delta) ==
    [l \in DOMAIN lp_shares \cup {lp_id} |->
        IF l = lp_id THEN share_delta ELSE lp_shares[l]]

\* lp_shares.entry(lp_id).or_default() += share_delta
Credit(lp_shares, lp_id, share_delta) ==
    [l \in DOMAIN lp_shares \cup {lp_id} |->
        IF l = lp_id
        THEN FAdd(IF lp_id \in DOMAIN lp_shares THEN lp_shares[lp_id] ELSE 0, share_delta)
        ELSE lp_shares[l]]

\* add_liquidity with the amounts added before the length check
AddLiquidityChecksLate(tick, lp_id, amounts) ==
    LET reserves == ZipAdd(tick.sphere_amm.reserves, amounts)
        added == [sphere_amm |-> [tick.sphere_amm EXCEPT
                                     !.reserves = reserves,
                                     !.radius = ResolveRadius(reserves)],
                  plane_constant |-> tick.plane_constant,
                  lp_shares |-> tick.lp_shares]
    IN  IF Len(amounts) # Len(tick.sphere_amm.reserves)
        THEN [res |-> "LengthMismatch", tick |-> added]
        ELSE [res |-> "ok",
              tick |-> [added EXCEPT
                           !.lp_shares = Credit(tick.lp_shares, lp_id, FSum(amounts))]]

\* OrbitalTick::add_liquidity
AddLiquidity(tick, lp_id, amounts) ==
    IF Len(amounts) # Len(tick.sphere_amm.reserves)
    THEN [res |-> "LengthMismatch", tick |-> tick]
    ELSE With(ZipAdd(tick.sphere_amm.reserves, amounts), LAMBDA reserves :
             [res |-> "ok",
              tick |-> [sphere_amm |-> [tick.sphere_amm EXCEPT
                                           !.reserves = reserves,
                                           !.radius = ResolveRadius(reserves)],
                        plane_constant |-> tick.plane_constant,
                        lp_shares |-> Credit(tick.lp_shares, lp_id, FSum(amounts))]])

RECURSIVE SumShares(_, _)
\* lp_shares.values().sum() over the LPs of set S
SumShares(lp_shares, S) ==
    IF S = {} THEN 0
    ELSE LET l == CHOOSE x \in S : TRUE
         IN  FAdd(SumShares(lp_shares, S \ {l}), lp_shares[l])

\* the bookkeeping with the entry decremented and never removed
DebitKeepsEntry(lp_shares, lp_id, percentage, shares_to_remove) ==
    [lp_shares EXCEPT ![lp_id] = FSub(lp_shares[lp_id], shares_to_remove)]

\* the bookkeeping of lines 127-131 of withdraw_liquidity
Debit(lp_shares, lp_id, percentage, shares_to_remove) ==
    IF FGe(percentage, FSub(Lit(1), Eps12))
    THEN [l \in DOMAIN lp_shares \ {lp_id} |-> lp_shares[l]]
    ELSE [lp_shares EXCEPT ![lp_id] = FSub(lp_shares[lp_id], shares_to_remove)]

\* withdraw_liquidity with the ratio taken against the LP's own shares
WithdrawLiquidityOwnShares(tick, lp_id, percentage) ==
    IF ~(FGe(percentage, 0) /\ FLe(percentage, Lit(1)))
    THEN [res |-> "InvalidPercentage", tick |-> tick, withdrawn |-> << >>]
    ELSE IF lp_id \notin DOMAIN tick.lp_shares
    THEN [res |-> "LPNotFound", tick |-> tick, withdrawn |-> << >>]
    ELSE IF FEq(tick.lp_shares[lp_id], 0)
    THEN [res |-> "ZeroShares", tick |-> tick, withdrawn |-> << >>]
    ELSE
    LET user_shares == tick.lp_shares[lp_id]
        shares_to_remove == FMul(user_shares, percentage)
        ratio == FDiv(shares_to_remove, user_shares)
        old == tick.sphere_amm.reserves
        withdrawn == [i \in 1..Len(old) |-> FMul(old[i], ratio)]
        reserves == [i \in 1..Len(old) |-> FSub(old[i], withdrawn[i])]
    IN  [res |-> "ok",
         withdrawn |-> withdrawn,
         tick |-> [sphere_amm |-> [tick.sphere_amm EXCEPT
                                      !.reserves = reserves,
                                      !.radius = ResolveRadius(reserves)],
                   plane_constant |-> tick.plane_constant,
                   lp_shares |-> Debit(tick.lp_shares, lp_id, percentage,
                                       shares_to_remove)]]

\* OrbitalTick::withdraw_liquidity
WithdrawLiquidity(tick, lp_id, percentage) ==
    IF ~(FGe(percentage, 0) /\ FLe(percentage, Lit(1)))
    THEN [res |-> "InvalidPercentage", tick |-> tick, withdrawn |-> << >>]
    ELSE IF lp_id \notin DOMAIN tick.lp_shares
    THEN [res |-> "LPNotFound", tick |-> tick, withdrawn |-> << >>]
    ELSE IF FEq(tick.lp_shares[lp_id], 0)
    THEN [res |-> "ZeroShares", tick |-> tick, withdrawn |-> << >>]
    ELSE
    LET user_shares == tick.lp_shares[lp_id]
        total_shares == SumShares(tick.lp_shares, DOMAIN tick.lp_shares)
        shares_to_remove == FMul(user_shares, percentage)
        ratio == FDiv(shares_to_remove, total_shares)
        old == tick.sphere_amm.reserves
        withdrawn == [i \in 1..Len(old) |-> FMul(old[i], ratio)]
        reserves == [i \in 1..Len(old) |-> FSub(old[i], withdrawn[i])]
    IN  [res |-> "ok",
         withdrawn |-> withdrawn,
         tick |-> [sphere_amm |-> [tick.sphere_amm EXCEPT
                                      !.reserves = reserves,
                                      !.radius = ResolveRadius(reserves)],
                   plane_constant |-> tick.plane_constant,
                   lp_shares |-> Debit(tick.lp_shares, lp_id, percentage,
                                       shares_to_remove)]]

\* MultiTickAMM::classify_ticks; the indices count from 1 here
ClassifyTicks(tks) ==
    LET idxs == [i \in 1..Len(tks) |-> i]
    IN  [interior |-> SelectSeq(idxs, LAMBDA i : IsInterior(tks[i])),
         boundary |-> SelectSeq(idxs, LAMBDA i : ~IsInterior(tks[i]) /\ IsBoundary(tks[i]))]

\* MultiTickAMM::recompute_global_reserves: fill(0.0), then add each tick's
\* reserves, zipped with the vector
RecomputeGlobalReserves(gr, tks) ==
    [k \in 1..Len(gr) |->
        FSum([t \in 1..Len(tks) |->
                IF k <= Len(tks[t].sphere_amm.reserves)
                THEN tks[t].sphere_amm.reserves[k] ELSE 0])]

\* the tick indices left in insertion order
InsertionOrder(tks) == { [i \in 1..Len(tks) |-> i] }

\* The orders sort_unstable_by may leave the tick indices in: ascending
\* plane_constant, ticks of equal plane_constant in either order
IsPermutation(o, n) == Len(o) = n /\ \A i \in 1..n : \E k \in 1..n : o[k] = i
SortedOrders(tks) ==
    { o \in [1..Len(tks) -> 1..Len(tks)] :
        /\ IsPermutation(o, Len(tks))
        /\ \A i, k \in 1..Len(tks) :
              i < k => tks[o[i]].plane_constant <= tks[o[k]].plane_constant }

RECURSIVE RouteLoop(_, _, _, _, _, _)
\* The for loop of route_trade from position k of idxs.  st.res is "running"
\* until a `?` returns early or the debug_assert of swap fires.
RouteLoop(st, idxs, k, from, to, dbg) ==
    IF k > Len(idxs) \/ st.res # "running" \/ FLe(st.amount, 0) THEN st
    ELSE
    LET idx == idxs[k]
        tick == st.ticks[idx]
        i == IndexOf(tick.sphere_amm, from)
    IN  IF i = 0
        THEN [st EXCEPT !.res = "TokenNotFound"]
        ELSE
        LET available == tick.sphere_amm.reserves[i]
            trade_in == FMin(st.amount, FMul(available, NineTenths))
        IN  IF FLe(available, Eps12) \/ FLe(trade_in, 0)
            THEN RouteLoop(st, idxs, k + 1, from, to, dbg)
            ELSE
            With(Swap(tick.sphere_amm, from, to, trade_in, dbg), LAMBDA s :
            With([ticks |-> [st.ticks EXCEPT ![idx].sphere_amm = s.pool],
                  amount |-> IF s.res = "ok" THEN FSub(st.amount, trade_in)
                             ELSE st.amount,
                  total_output |-> IF s.res = "ok" THEN FAdd(st.total_output, s.out)
                                   ELSE st.total_output,
                  hops |-> Append(st.hops, [idx |-> idx, trade_in |-> trade_in,
                                            res |-> s.res, out |-> s.out]),
                  res |-> IF s.res = "ok" THEN "running" ELSE s.res],
                 LAMBDA st2 : RouteLoop(st2, idxs, k + 1, from, to, dbg)))

\* What route_trade does after its loop: lines 213-217 when the loop ran to its
\* end, nothing when it was left by an early return or a panic
RouteFinish(st, gr) ==
    IF st.res # "running"
    THEN [res |-> st.res, out |-> 0, ticks |-> st.ticks, global_reserves |-> gr,
          hops |-> st.hops, amount |-> st.amount]
    ELSE [res |-> IF FGt(st.amount, Eps8) THEN "NotEnoughLiquidity" ELSE "ok",
          out |-> IF FGt(st.amount, Eps8) THEN 0 ELSE st.total_output,
          ticks |-> st.ticks,
          global_reserves |-> RecomputeGlobalReserves(gr, st.ticks),
          hops |-> st.hops, amount |-> st.amount]

\* route_trade putting the ticks back when the route fails
RouteTradeRollsBack(tks, gr, idxs, from, to, amount, dbg) ==
    With(RouteLoop([ticks |-> tks, amount |-> amount, total_output |-> 0,
                    hops |-> << >>, res |-> "running"],
                   idxs, 1, from, to, dbg),
         LAMBDA st : With(RouteFinish(st, gr), LAMBDA r :
                        IF r.res \in {"ok", "panic"} THEN r
                        ELSE [r EXCEPT !.ticks = tks]))

\* MultiTickAMM::route_trade, idxs being the sorted tick indices
RouteTrade(tks, gr, idxs, from, to, amount, dbg) ==
    With(RouteLoop([ticks |-> tks, amount |-> amount, total_output |-> 0,
                    hops |-> << >>, res |-> "running"],
                   idxs, 1, from, to, dbg),
         LAMBDA st : RouteFinish(st, gr))

\* the loop of get_aggregated_price with every tick given the weight 1.0
RECURSIVE PriceLoopUnweighted(_, _, _, _, _)
PriceLoopUnweighted(tks, k, from, to, acc) ==
    IF k > Len(tks) \/ acc.res # "running" THEN acc
    ELSE
    LET p == tks[k].sphere_amm
        i == IndexOf(p, from)
        sp == GetSpotPrice(p, from, to)
    IN  IF i = 0 THEN [acc EXCEPT !.res = "TokenNotFound"]
        ELSE IF FEq(p.reserves[i], 0) THEN PriceLoopUnweighted(tks, k + 1, from, to, acc)
        ELSE IF sp.res # "ok" THEN [acc EXCEPT !.res = sp.res]
        ELSE PriceLoopUnweighted(tks, k + 1, from, to,
                                 [res |-> "running",
                                  num |-> FAdd(acc.num, sp.price),
                                  denom |-> FAdd(acc.denom, Lit(1))])

\* MultiTickAMM::get_aggregated_price
RECURSIVE PriceLoop(_, _, _, _, _)
PriceLoop(tks, k, from, to, acc) ==
    IF k > Len(tks) \/ acc.res # "running" THEN acc
    ELSE
    LET p == tks[k].sphere_amm
        i == IndexOf(p, from)
        sp == GetSpotPrice(p, from, to)
    IN  IF i = 0 THEN [acc EXCEPT !.res = "TokenNotFound"]
        ELSE IF FEq(p.reserves[i], 0) THEN PriceLoop(tks, k + 1, from, to, acc)
        ELSE IF sp.res # "ok" THEN [acc EXCEPT !.res = sp.res]
        ELSE PriceLoop(tks, k + 1, from, to,
                       [res |-> "running",
                        num |-> FAdd(acc.num, FMul(sp.price, p.reserves[i])),
                        denom |-> FAdd(acc.denom, p.reserves[i])])
GetAggregatedPrice(tks, from, to) ==
    LET acc == PriceLoop(tks, 1, from, to, [res |-> "running", num |-> 0, denom |-> 0])
    IN  IF acc.res # "running" THEN [res |-> acc.res, price |-> 0]
        ELSE IF FEq(acc.denom, 0) THEN [res |-> "NoLiquidityForPrice", price |-> 0]
        ELSE [res |-> "ok", price |-> FDiv(acc.num, acc.denom)]

(* ----------------------------- state ---------------------------------- *)

VARIABLES
    debug,            \* the build has debug assertions (cargo build) or not (--release)
    pool,             \* orbital_pool.json: << >> when absent, else <<SphereAMM>>
    ticks,            \* MultiTickAMM.ticks of the server process
    global_reserves,  \* MultiTickAMM.global_reserves
    token_names,      \* MultiTickAMM.token_names
    saved,            \* multi_tick.json: << >> when absent, else <<MultiTickAMM>>
    last,             \* the last command or request, its inputs and its outcome
    ops,              \* commands and requests handled so far
    lock,             \* the Mutex around the MultiTickAMM: its holder and its poison flag
    handlers          \* per worker thread, the request it is handling and where it is

vars == <<debug, pool, ticks, global_reserves, token_names, saved, last, ops,
          lock, handlers>>
ammVars == <<ticks, global_reserves, token_names, saved>>
concVars == <<lock, handlers>>

(* bounds and the inputs drawn *)
MaxTicks == 3
MaxOps == 3
MaxCliOps == 3
NumWorkers == 2

AllTokens == <<"USDC", "USDT", "DAI">>
TokenSet == {AllTokens[i] : i \in 1..Len(AllTokens)}
Prefix(n) == SubSeq(AllTokens, 1, n)

\* `init TOKEN:AMOUNT,...` arguments of the CLI
CliReserves ==
    { <<1000>>, <<1000, 1000>>, <<500, 10>>, <<1000, 1000, 1000>>, <<1000, 0, 0>> }
\* `swap FROM TO AMOUNT` amounts of the CLI
CliAmounts == { -100, 0, 100, 900, 6000 }

NoLast == [op |-> "none"]

\* the worker threads of the HttpServer, the unlocked Mutex, a worker between
\* requests
Workers == 1..NumWorkers
FreeLock == [holder |-> 0, poisoned |-> FALSE]
Idle == [pc |-> "idle"]
NoHandlers == [w \in Workers |-> Idle]

(* ----------------------------- main.rs -------------------------------- *)

\* serde_json writes a non-finite f64 as null, which does not read back as f64
Loadable(p) == IsFinite(p.radius) /\ \A i \in 1..Len(p.reserves) : IsFinite(p.reserves[i])

\* Commands::Init: SphereAMM::new (with its debug_assert), then save_state
CliInit(reserves) ==
    /\ ops < MaxCliOps
    /\ \E p \in {NewSphere(Prefix(Len(reserves)), reserves)} :
       LET panics == debug /\ ~CheckInvariant(p)
       IN  /\ pool' = IF panics THEN pool ELSE <<p>>
           /\ last' = [op |-> "cli_init", reserves |-> reserves,
                       res |-> IF panics THEN "panic" ELSE "ok", made |-> p]
    /\ ops' = ops + 1
    /\ UNCHANGED <<debug, ammVars, concVars>>

\* Commands::Swap: load_state, swap, and save_state when the swap returned Ok
CliSwap(from, to, amount) ==
    /\ ops < MaxCliOps
    /\ IF pool = << >> \/ ~Loadable(pool[1])
       THEN /\ last' = [op |-> "cli_swap", from |-> from, to |-> to, amount |-> amount,
                        res |-> "load_panic"]
            /\ UNCHANGED pool
       ELSE \E s \in {Swap(pool[1], from, to, amount, debug)} :
                /\ pool' = IF s.res = "ok" THEN <<s.pool>> ELSE pool
                /\ last' = [op |-> "cli_swap", from |-> from, to |-> to,
                            amount |-> amount, res |-> s.res, out |-> s.out,
                            pre |-> pool[1], post |-> s.pool]
    /\ ops' = ops + 1
    /\ UNCHANGED <<debug, ammVars, concVars>>

(* ---------------------------- server.rs ------------------------------- *)

\* inputs of the requests
LPs == {"alice", "bob"}
StartReserves == { <<1000, 1000>> }
StartPlanes == { 500 }
TickReserves == { <<500, 500>>, <<500, 10>>, <<1000>>, <<1000, 0, 0>>, <<-100, 1000>> }
TickPlanes == { 0, 500, 700 }
TradeAmounts == { -100, 0, 300, 1000, 1350 }
SetReservesInputs == { <<2000, 1000>>, <<0, 0>>, <<-100, 1000>>, <<1000, 0, 0>>, <<700>> }
LiquidityAmounts == { <<100, 100>>, <<-100, -100>>, <<100, -100>>, <<100>>, <<100, 0, 0>> }
Percentages == { -1, 0, 5, 10, 11 }
ReconfigureInputs ==
    { <<1, <<1000>>, 500>>, <<2, <<1000, 1000>>, 500>>, <<2, <<1000>>, 500>>,
      <<2, <<-100, 1000>>, 500>>, <<3, <<1000, 0, 0>>, 0>>, <<3, <<1000, 0, 0>>, 500>> }

DefaultReserve == 10000
DefaultPlane == 6000

\* what save_state writes
Snapshot(tks, gr, names) == [ticks |-> tks, global_reserves |-> gr, token_names |-> names]

\* MultiTickAMM::new
Zeros(n) == [k \in 1..n |-> 0]

\* StateResponse of get_state
GetState ==
    [ticks |-> [i \in 1..Len(ticks) |->
                  [index |-> i - 1,
                   plane_constant |-> ticks[i].plane_constant,
                   reserves |-> ticks[i].sphere_amm.reserves,
                   radius |-> ticks[i].sphere_amm.radius,
                   is_interior |-> IsInterior(ticks[i]),
                   is_boundary |-> IsBoundary(ticks[i]),
                   liquidity |-> Liquidity(ticks[i])]],
     token_names |-> token_names,
     global_reserves |-> global_reserves,
     tick_count |-> Len(ticks)]

\* MultiTickAMM::add_tick on the aggregator (tks, gr, names), then save_state.
\* The debug_assert of SphereAMM::new panics before the push and the save.
AddTickAndSave(tks, gr, names, plane, reserves) ==
    \E tick \in {NewTick(names, reserves, plane)} :
    LET panics == debug /\ ~CheckInvariant(tick.sphere_amm)
        tks2 == IF panics THEN tks ELSE Append(tks, tick)
        gr2 == IF panics THEN gr ELSE RecomputeGlobalReserves(gr, tks2)
    IN  /\ ticks' = tks2
        /\ global_reserves' = gr2
        /\ token_names' = names
        /\ saved' = IF panics THEN saved ELSE <<Snapshot(tks2, gr2, names)>>

\* run: load_state with no multi_tick.json, the first tick, save_state.  A
\* build with debug assertions does not get past a first tick off the sphere.
Init ==
    /\ debug \in BOOLEAN
    /\ pool = << >>
    /\ \E n \in 1..Len(AllTokens), initial_reserves \in StartReserves, plane \in StartPlanes :
          LET names == Prefix(n)
              reserves == IF Len(initial_reserves) = n THEN initial_reserves
                          ELSE [k \in 1..n |-> DefaultReserve]
              tick == NewTick(names, reserves, plane)
          IN  /\ debug => CheckInvariant(tick.sphere_amm)
              /\ ticks = <<tick>>
              /\ global_reserves = RecomputeGlobalReserves(Zeros(n), <<tick>>)
              /\ token_names = names
              /\ saved = <<Snapshot(ticks, global_reserves, names)>>
    /\ last = NoLast
    /\ ops = 0
    /\ lock = FreeLock
    /\ handlers = NoHandlers

\* post_trade
PostTrade(from, to, amount) ==
    /\ ops < MaxOps
    /\ \E idxs \in SortedOrders(ticks) :
          \E r \in {RouteTrade(ticks, global_reserves, idxs, from, to, amount, debug)} :
              /\ ticks' = r.ticks
              /\ global_reserves' = r.global_reserves
              /\ saved' = IF r.res = "ok"
                          THEN <<Snapshot(r.ticks, r.global_reserves, token_names)>>
                          ELSE saved
              /\ last' = [op |-> "trade", from |-> from, to |-> to, amount |-> amount,
                          res |-> r.res, out |-> r.out, hops |-> r.hops, idxs |-> idxs,
                          remaining |-> r.amount, pre |-> ticks, pre_global |-> global_reserves]
    /\ ops' = ops + 1
    /\ UNCHANGED <<debug, pool, token_names, concVars>>

\* post_tick
PostTick(plane, reserves) ==
    /\ ops < MaxOps
    /\ Len(ticks) < MaxTicks
    /\ IF Len(reserves) # Len(token_names)
       THEN /\ last' = [op |-> "tick", plane |-> plane, reserves |-> reserves,
                        res |-> "LengthMismatch", pre |-> ticks, pre_global |-> global_reserves]
            /\ UNCHANGED ammVars
       ELSE /\ AddTickAndSave(ticks, global_reserves, token_names, plane, reserves)
            /\ last' = [op |-> "tick", plane |-> plane, reserves |-> reserves,
                        res |-> IF Len(ticks') = Len(ticks) THEN "panic" ELSE "ok",
                        pre |-> ticks, pre_global |-> global_reserves]
    /\ ops' = ops + 1
    /\ UNCHANGED <<debug, pool, concVars>>

\* set_reserves; tick_index counts from 1 here
SetReserves(tick_index, reserves) ==
    /\ ops < MaxOps
    /\ LET res == IF tick_index > Len(ticks) THEN "InvalidTickIndex"
                  ELSE IF Len(reserves) # Len(token_names) THEN "LengthMismatch"
                  ELSE IF \E i \in 1..Len(reserves) : FLt(reserves[i], 0)
                       THEN "NegativeReserves"
                  ELSE "ok"
       IN  \E tks \in {IF res = "ok"
                       THEN [ticks EXCEPT ![tick_index].sphere_amm.reserves = reserves,
                                          ![tick_index].sphere_amm.radius =
                                              ResolveRadius(reserves)]
                       ELSE ticks} :
           /\ ticks' = tks
           /\ saved' = IF res = "ok"
                       THEN <<Snapshot(tks, global_reserves, token_names)>>
                       ELSE saved
           /\ last' = [op |-> "set_reserves", tick_index |-> tick_index,
                       reserves |-> reserves, res |-> res, pre |-> ticks, pre_global |-> global_reserves]
    /\ ops' = ops + 1
    /\ UNCHANGED <<debug, pool, global_reserves, token_names, concVars>>

\* add_liquidity
PostAddLiquidity(tick_index, lp_id, amounts) ==
    /\ ops < MaxOps
    /\ \E r \in {IF tick_index > Len(ticks)
                 THEN [res |-> "InvalidTickIndex"]
                 ELSE AddLiquidity(ticks[tick_index], lp_id, amounts)} :
       LET tks == IF tick_index > Len(ticks) THEN ticks
                  ELSE [ticks EXCEPT ![tick_index] = r.tick]
       IN  /\ ticks' = tks
           /\ saved' = IF r.res = "ok"
                       THEN <<Snapshot(tks, global_reserves, token_names)>>
                       ELSE saved
           /\ last' = [op |-> "add_liquidity", tick_index |-> tick_index,
                       lp_id |-> lp_id, amounts |-> amounts, res |-> r.res,
                       pre |-> ticks, pre_global |-> global_reserves]
    /\ ops' = ops + 1
    /\ UNCHANGED <<debug, pool, global_reserves, token_names, concVars>>

\* remove_liquidity
PostRemoveLiquidity(tick_index, lp_id, percentage) ==
    /\ ops < MaxOps
    /\ \E r \in {IF tick_index > Len(ticks)
                 THEN [res |-> "InvalidTickIndex", withdrawn |-> << >>]
                 ELSE WithdrawLiquidity(ticks[tick_index], lp_id, percentage)} :
       LET tks == IF tick_index > Len(ticks) THEN ticks
                  ELSE [ticks EXCEPT ![tick_index] = r.tick]
       IN  /\ ticks' = tks
           /\ saved' = IF r.res = "ok"
                       THEN <<Snapshot(tks, global_reserves, token_names)>>
                       ELSE saved
           /\ last' = [op |-> "remove_liquidity", tick_index |-> tick_index,
                       lp_id |-> lp_id, percentage |-> percentage, res |-> r.res,
                       withdrawn |-> r.withdrawn, pre |-> ticks, pre_global |-> global_reserves]
    /\ ops' = ops + 1
    /\ UNCHANGED <<debug, pool, global_reserves, token_names, concVars>>

\* reset_state
ResetState ==
    /\ ops < MaxOps
    /\ AddTickAndSave(<< >>, Zeros(Len(token_names)), token_names, DefaultPlane,
                      [k \in 1..Len(token_names) |-> DefaultReserve])
    /\ last' = [op |-> "reset", res |-> IF ticks' = << >> THEN "panic" ELSE "ok",
                pre |-> ticks, pre_global |-> global_reserves]
    /\ ops' = ops + 1
    /\ UNCHANGED <<debug, pool, concVars>>

\* reconfigure_amm
ReconfigureAmm(n, initial_reserves, initial_plane) ==
    /\ ops < MaxOps
    /\ LET res == IF Len(initial_reserves) # n THEN "LengthMismatch"
                  ELSE IF n = 0 THEN "NoTokens"
                  ELSE IF \E i \in 1..Len(initial_reserves) : FLt(initial_reserves[i], 0)
                       THEN "NegativeReserves"
                  ELSE IF FLe(initial_plane, 0) THEN "NonPositivePlane"
                  ELSE "ok"
       IN  IF res # "ok"
           THEN /\ last' = [op |-> "reconfigure", res |-> res, pre |-> ticks, pre_global |-> global_reserves]
                /\ UNCHANGED ammVars
           ELSE /\ AddTickAndSave(<< >>, Zeros(n), Prefix(n), initial_plane,
                                  initial_reserves)
                /\ last' = [op |-> "reconfigure",
                            res |-> IF ticks' = << >> THEN "panic" ELSE "ok",
                            pre |-> ticks, pre_global |-> global_reserves]
    /\ ops' = ops + 1
    /\ UNCHANGED <<debug, pool, concVars>>

\* get_price_single with both query parameters given
GetPriceSingle(from, to) ==
    /\ ops < MaxOps
    /\ \E r \in {GetAggregatedPrice(ticks, from, to)} :
          last' = [op |-> "price", from |-> from, to |-> to, res |-> r.res,
                   price |-> r.price, pre |-> ticks, pre_global |-> global_reserves,
                   pre_saved |-> saved]
    /\ ops' = ops + 1
    /\ UNCHANGED <<debug, pool, ammVars, concVars>>

\* a call of MultiTickAMM::classify_ticks on the aggregator
ClassifyTicksCall ==
    /\ ops < MaxOps
    /\ \E c \in {ClassifyTicks(ticks)} :
          last' = [op |-> "classify", res |-> "ok", interior |-> c.interior,
                   boundary |-> c.boundary, pre |-> ticks, pre_global |-> global_reserves]
    /\ ops' = ops + 1
    /\ UNCHANGED <<debug, pool, ammVars, concVars>>

(* ------------------- server.rs, one step per access ------------------- *)

\* The handlers again, as the worker threads of the HttpServer run them: every
\* handler is get_amm_safe (Mutex::lock), then its reads and writes of the
\* MultiTickAMM through the guard, one step each, then its return, where the
\* guard is dropped.  A panic unwinds the handler: the guard is dropped and
\* the Mutex is poisoned, which get_amm_safe recovers from.

\* requests of the concurrent clients
ConcTickReserves == { <<500, 10>>, <<500, 500>> }
ConcAmounts == { 300, 1350 }
ConcRequests ==
    { [op |-> "trade", from |-> f, to |-> t, amount |-> a] :
          f \in TokenSet, t \in TokenSet, a \in ConcAmounts }
    \cup { [op |-> "tick", plane |-> c, reserves |-> r] :
               c \in StartPlanes, r \in ConcTickReserves }
    \cup { [op |-> "state"] }

\* handlers[w] with worker w at h
SetHandler(w, h) == handlers' = [handlers EXCEPT ![w] = h]

\* a request reaches worker w
Receive(w, req) ==
    /\ ops < MaxOps
    /\ handlers[w].pc = "idle"
    /\ (req.op = "tick" => Len(ticks) < MaxTicks)
    /\ SetHandler(w, [pc |-> "lock", req |-> req])
    /\ ops' = ops + 1
    /\ UNCHANGED <<debug, pool, ammVars, last, lock>>

\* get_amm_safe without waiting for the Mutex
AcquireNoWait(w) ==
    /\ handlers[w].pc = "lock"
    /\ lock' = [lock EXCEPT !.holder = w]
    /\ SetHandler(w, [pc |-> "start", req |-> handlers[w].req])
    /\ UNCHANGED <<debug, pool, ammVars, last, ops>>

\* get_amm_safe: Mutex::lock blocks while another guard lives; poisoned or
\* not, the guard is returned
Acquire(w) ==
    /\ handlers[w].pc = "lock"
    /\ lock.holder = 0
    /\ lock' = [lock EXCEPT !.holder = w]
    /\ SetHandler(w, [pc |-> "start", req |-> handlers[w].req])
    /\ UNCHANGED <<debug, pool, ammVars, last, ops>>

\* the handler returns its response: the guard is dropped
Return(w) ==
    /\ handlers[w].pc = "return"
    /\ lock' = [lock EXCEPT !.holder = 0]
    /\ last' = [op |-> handlers[w].req.op, res |-> handlers[w].res,
                worker |-> w, torn |-> handlers[w].torn]
    /\ SetHandler(w, Idle)
    /\ UNCHANGED <<debug, pool, ammVars, ops>>

\* the handler panics with res: the guard is dropped in the unwinding and the
\* Mutex is poisoned
Unwind(w, res) ==
    /\ lock' = [holder |-> 0, poisoned |-> TRUE]
    /\ last' = [op |-> handlers[w].req.op, res |-> res, worker |-> w, torn |-> FALSE]
    /\ SetHandler(w, Idle)

\* route_trade, lines 191-195: the tick indices sorted
TradeSort(w) ==
    /\ handlers[w].pc = "start"
    /\ handlers[w].req.op = "trade"
    /\ \E idxs \in SortedOrders(ticks) :
          SetHandler(w, [pc |-> "hop", req |-> handlers[w].req, idxs |-> idxs, k |-> 1,
                         amount |-> handlers[w].req.amount, total_output |-> 0,
                         hops |-> << >>])
    /\ UNCHANGED <<debug, pool, ammVars, last, ops, lock>>

\* route_trade, lines 196-212: one iteration of the loop, on tick idxs[k]
TradeHop(w) ==
    LET h == handlers[w]
    IN  /\ h.pc = "hop"
        /\ IF h.k > Len(h.idxs) \/ FLe(h.amount, 0)
           THEN /\ SetHandler(w, [h EXCEPT !.pc = "recompute"])
                /\ UNCHANGED <<ammVars, last, lock>>
           ELSE \E st \in {RouteLoop([ticks |-> ticks, amount |-> h.amount,
                                      total_output |-> h.total_output,
                                      hops |-> h.hops, res |-> "running"],
                                     <<h.idxs[h.k]>>, 1, h.req.from, h.req.to, debug)} :
                   /\ ticks' = st.ticks
                   /\ UNCHANGED <<global_reserves, token_names, saved>>
                   /\ IF st.res = "panic"
                      THEN Unwind(w, "panic")
                      ELSE /\ SetHandler(w,
                                 IF st.res = "running"
                                 THEN [h EXCEPT !.k = h.k + 1, !.amount = st.amount,
                                                !.total_output = st.total_output,
                                                !.hops = st.hops]
                                 ELSE [pc |-> "return", req |-> h.req, res |-> st.res,
                                       torn |-> FALSE])
                           /\ UNCHANGED <<last, lock>>
        /\ UNCHANGED <<debug, pool, ops>>

\* route_trade, lines 213-217: recompute_global_reserves and the remainder check
TradeRecompute(w) ==
    LET h == handlers[w]
    IN  /\ h.pc = "recompute"
        /\ h.req.op = "trade"
        /\ \E r \in {RouteFinish([ticks |-> ticks, amount |-> h.amount,
                                  total_output |-> h.total_output, hops |-> h.hops,
                                  res |-> "running"], global_reserves)} :
              /\ global_reserves' = r.global_reserves
              /\ SetHandler(w, [pc |-> IF r.res = "ok" THEN "save" ELSE "return",
                                req |-> h.req, res |-> r.res, torn |-> FALSE])
        /\ UNCHANGED <<debug, pool, ticks, token_names, saved, last, ops, lock>>

\* post_tick, line 276 and the push of add_tick (the debug_assert of
\* SphereAMM::new panics before the push)
TickPush(w) ==
    LET h == handlers[w]
    IN  /\ h.pc = "start"
        /\ h.req.op = "tick"
        /\ IF Len(h.req.reserves) # Len(token_names)
           THEN /\ SetHandler(w, [pc |-> "return", req |-> h.req,
                                  res |-> "LengthMismatch", torn |-> FALSE])
                /\ UNCHANGED <<ammVars, last, lock>>
           ELSE \E tick \in {NewTick(token_names, h.req.reserves, h.req.plane)} :
                   IF debug /\ ~CheckInvariant(tick.sphere_amm)
                   THEN /\ Unwind(w, "panic")
                        /\ UNCHANGED ammVars
                   ELSE /\ ticks' = Append(ticks, tick)
                        /\ SetHandler(w, [pc |-> "recompute", req |-> h.req])
                        /\ UNCHANGED <<global_reserves, token_names, saved, last, lock>>
        /\ UNCHANGED <<debug, pool, ops>>

\* add_tick, line 170: recompute_global_reserves
TickRecompute(w) ==
    LET h == handlers[w]
    IN  /\ h.pc = "recompute"
        /\ h.req.op = "tick"
        /\ global_reserves' = RecomputeGlobalReserves(global_reserves, ticks)
        /\ SetHandler(w, [pc |-> "save", req |-> h.req, res |-> "ok", torn |-> FALSE])
        /\ UNCHANGED <<debug, pool, ticks, token_names, saved, last, ops, lock>>

\* save_state, called by post_trade and post_tick through the guard
Save(w) ==
    /\ handlers[w].pc = "save"
    /\ saved' = <<Snapshot(ticks, global_reserves, token_names)>>
    /\ SetHandler(w, [handlers[w] EXCEPT !.pc = "return"])
    /\ UNCHANGED <<debug, pool, ticks, global_reserves, token_names, last, ops, lock>>

\* get_state, lines 102-116: the tick infos read
StateReadTicks(w) ==
    LET h == handlers[w]
    IN  /\ h.pc = "start"
        /\ h.req.op = "state"
        /\ SetHandler(w, [pc |-> "read_global", req |-> h.req,
                          tick_infos |-> GetState.ticks,
                          at |-> <<ticks, global_reserves>>])
        /\ UNCHANGED <<debug, pool, ammVars, last, ops, lock>>

\* get_state, lines 118-123: global_reserves read.  torn says that the
\* aggregator was written between the two reads.
StateReadGlobal(w) ==
    LET h == handlers[w]
    IN  /\ h.pc = "read_global"
        /\ SetHandler(w, [pc |-> "return", req |-> h.req, res |-> "ok",
                          torn |-> (<<ticks, global_reserves>> # h.at)])
        /\ UNCHANGED <<debug, pool, ammVars, last, ops, lock>>

(* -------------------------- specifications ---------------------------- *)

\* no server process: the CLI commands alone
InitCli ==
    /\ debug \in BOOLEAN
    /\ pool = << >>
    /\ ticks = << >>
    /\ global_reserves = << >>
    /\ token_names = << >>
    /\ saved = << >>
    /\ last = NoLast
    /\ ops = 0
    /\ lock = FreeLock
    /\ handlers = NoHandlers

CliInitStep == \E reserves \in CliReserves : CliInit(reserves)
CliSwapStep == \E from \in TokenSet, to \in TokenSet, amount \in CliAmounts :
                  CliSwap(from, to, amount)
PostTradeStep == \E from \in TokenSet, to \in TokenSet, amount \in TradeAmounts :
                    PostTrade(from, to, amount)
PostTickStep == \E plane \in TickPlanes, reserves \in TickReserves :
                   PostTick(plane, reserves)
SetReservesStep == \E tick_index \in 1..(MaxTicks + 1), reserves \in SetReservesInputs :
                      SetReserves(tick_index, reserves)
AddLiquidityStep == \E tick_index \in 1..(MaxTicks + 1), lp_id \in LPs,
                       amounts \in LiquidityAmounts :
                       PostAddLiquidity(tick_index, lp_id, amounts)
RemoveLiquidityStep == \E tick_index \in 1..(MaxTicks + 1), lp_id \in LPs,
                          percentage \in Percentages :
                          PostRemoveLiquidity(tick_index, lp_id, percentage)
ReconfigureStep == \E c \in ReconfigureInputs : ReconfigureAmm(c[1], c[2], c[3])

\* the CLI commands on orbital_pool.json
NextCli == CliInitStep \/ CliSwapStep
SpecCli == InitCli /\ [][NextCli]_vars

\* the server with the add-tick and trade requests
NextRoute == PostTickStep \/ PostTradeStep
SpecRoute == Init /\ [][NextRoute]_vars

\* the server with the liquidity and set-reserves requests
NextLiq == PostTickStep \/ SetReservesStep \/ AddLiquidityStep \/ RemoveLiquidityStep
SpecLiq == Init /\ [][NextLiq]_vars

\* the server with the add-liquidity and remove-liquidity requests, on deposits
\* and percentages whose products are not whole units
WithdrawAmounts == { <<100, 100>>, <<5, 5>>, <<5, 15>>, <<-100, -100>> }
WithdrawPercentages == { 0, 3, 5, 10, 11 }
WithdrawAddStep == \E tick_index \in 1..2, lp_id \in LPs, amounts \in WithdrawAmounts :
                      PostAddLiquidity(tick_index, lp_id, amounts)
WithdrawRemoveStep == \E tick_index \in 1..2, lp_id \in LPs,
                         percentage \in WithdrawPercentages :
                         PostRemoveLiquidity(tick_index, lp_id, percentage)
NextWithdraw == WithdrawAddStep \/ WithdrawRemoveStep
SpecWithdraw == Init /\ [][NextWithdraw]_vars

\* the server with the price request, and the requests that add ticks and set
\* their reserves
PriceReserves == { <<2000, 1000>>, <<4, 3>>, <<0, 0>>, <<700>>, <<1000, 0, 0>> }
GetPriceStep == \E from \in TokenSet, to \in TokenSet : GetPriceSingle(from, to)
PriceSetReservesStep == \E tick_index \in 1..(MaxTicks + 1), reserves \in PriceReserves :
                           SetReserves(tick_index, reserves)
NextPrice == PostTickStep \/ PriceSetReservesStep \/ GetPriceStep
SpecPrice == Init /\ [][NextPrice]_vars

\* the aggregator with ticks added and classify_ticks called on it
ClassifyPlanes == { 0, 500, 714 }
ClassifyTickStep == \E plane \in ClassifyPlanes, reserves \in TickReserves :
                       PostTick(plane, reserves)
NextClassify == ClassifyTickStep \/ ClassifyTicksCall
SpecClassify == Init /\ [][NextClassify]_vars

\* the server under concurrent trade, add-tick and state requests
ReceiveStep == \E w \in Workers, req \in ConcRequests : Receive(w, req)
AcquireStep == \E w \in Workers : Acquire(w)
ReturnStep == \E w \in Workers : Return(w)
TradeSortStep == \E w \in Workers : TradeSort(w)
TradeHopStep == \E w \in Workers : TradeHop(w)
TradeRecomputeStep == \E w \in Workers : TradeRecompute(w)
TickPushStep == \E w \in Workers : TickPush(w)
TickRecomputeStep == \E w \in Workers : TickRecompute(w)
SaveStep == \E w \in Workers : Save(w)
StateReadTicksStep == \E w \in Workers : StateReadTicks(w)
StateReadGlobalStep == \E w \in Workers : StateReadGlobal(w)
NextConc ==
    \/ ReceiveStep
    \/ AcquireStep
    \/ ReturnStep
    \/ TradeSortStep
    \/ TradeHopStep
    \/ TradeRecomputeStep
    \/ TickPushStep
    \/ TickRecomputeStep
    \/ SaveStep
    \/ StateReadTicksStep
    \/ StateReadGlobalStep
SpecConc == Init /\ [][NextConc]_vars

\* the server with every mutating request
Next ==
    \/ PostTradeStep
    \/ PostTickStep
    \/ SetReservesStep
    \/ AddLiquidityStep
    \/ RemoveLiquidityStep
    \/ ResetState
    \/ ReconfigureStep
Spec == Init /\ [][Next]_vars

(* ------------------------------ claims -------------------------------- *)

SwapErrors == {"InvalidAmount", "TokenNotFound", "ComplexSolution", "InsufficientLiquidity"}

\* gr[k] is the sum over the ticks of reserves[k], for every token k
GlobalIsSum(gr, tks, names) ==
    /\ Len(gr) = Len(names)
    /\ \A k \in 1..Len(names) :
          gr[k] = FSum([t \in 1..Len(tks) |-> tks[t].sphere_amm.reserves[k]])

\* the hops of the last trade whose swap returned Ok
OkHops == { n \in 1..Len(last.hops) : last.hops[n].res = "ok" }
\* the position of tick t in the order the last trade consulted the ticks
PosOf(t) == CHOOSE k \in 1..Len(last.idxs) : last.idxs[k] = t

\* C1: after an add-tick or trade request that returned (Ok or Err) on an
\* aggregator whose global_reserves was the sum of its ticks' reserves,
\* global_reserves is again that sum.
C1_GlobalReservesAfterRouting ==
    ( /\ last.op \in {"tick", "trade"}
      /\ last.res # "panic"
      /\ GlobalIsSum(last.pre_global, last.pre, token_names) )
    => GlobalIsSum(global_reserves, ticks, token_names)

\* C2: after a successful add-liquidity, remove-liquidity or set-reserves
\* request on an aggregator whose global_reserves was the sum of its ticks'
\* reserves, global_reserves is that sum, in memory and in the get_state answer.
C2_GlobalReservesAfterLiquidity ==
    ( /\ last.op \in {"add_liquidity", "remove_liquidity", "set_reserves"}
      /\ last.res = "ok"
      /\ GlobalIsSum(last.pre_global, last.pre, token_names) )
    => /\ GlobalIsSum(global_reserves, ticks, token_names)
       /\ GlobalIsSum(GetState.global_reserves, ticks, token_names)

\* C3: a swap that returns Ok on a pool satisfying check_invariant leaves a
\* pool satisfying check_invariant, whatever the two tokens are.
C3_InvariantAfterSwap ==
    ( /\ last.op = "cli_swap"
      /\ last.res = "ok"
      /\ CheckInvariant(last.pre) )
    => CheckInvariant(last.post)

\* C4: every swap of a trade that returned Ok has 0 < output <= reserves[to],
\* the reserve read before that swap.
C4_SwapOutputBounds ==
    last.op = "trade" =>
        \A n \in OkHops :
            LET h == last.hops[n]
                before == last.pre[h.idx].sphere_amm
            IN  /\ FGt(h.out, 0)
                /\ FLe(h.out, before.reserves[IndexOf(before, last.to)])

\* C5: a pool made by SphereAMM::new from any reserve vector satisfies
\* check_invariant.
C5_NewPoolSatisfiesInvariant ==
    last.op = "cli_init" => (last.res = "ok" /\ CheckInvariant(last.made))

\* the trade_in amounts the last trade applied, summed
Applied == FSum([n \in 1..Len(last.hops) |->
                    IF last.hops[n].res = "ok" THEN last.hops[n].trade_in ELSE 0])

\* C6: a route_trade call never applies more than the requested amount; when
\* it returns Ok it applied the amount within 1e-8; when it visited every tick
\* and more than 1e-8 is left it returns the not-enough-liquidity error.
C6_RoutingConservation ==
    (last.op = "trade" /\ last.res # "panic") =>
        /\ FLe(Applied, last.amount)
        /\ last.res = "ok" => FLe(FAbs(FSub(last.amount, Applied)), Eps8)
        /\ last.res \in {"ok", "NotEnoughLiquidity"} =>
              (last.res = "NotEnoughLiquidity" <=> FGt(last.remaining, Eps8))

\* C7: when a trade fails after one or more swaps returned Ok, every tick so
\* swapped holds the reserves its swap wrote (and its radius, plane constant
\* and LP shares as before), and every tick ordered after the failing one is
\* as it was before the call.
C7_NoRollback ==
    ( /\ last.op = "trade"
      /\ last.res \in SwapErrors \cup {"NotEnoughLiquidity"}
      /\ OkHops # {} )
    => /\ \A n \in OkHops :
             LET h == last.hops[n]
                 before == last.pre[h.idx]
                 now == ticks[h.idx]
             IN  /\ now.sphere_amm.reserves =
                        SwapApply(before.sphere_amm.reserves,
                                  IndexOf(before.sphere_amm, last.from),
                                  IndexOf(before.sphere_amm, last.to),
                                  h.trade_in, h.out)
                 /\ now.sphere_amm.radius = before.sphere_amm.radius
                 /\ now.plane_constant = before.plane_constant
                 /\ now.lp_shares = before.lp_shares
       /\ last.res \in SwapErrors =>
             \A t \in 1..Len(ticks) :
                 PosOf(t) > PosOf(last.hops[Len(last.hops)].idx) => ticks[t] = last.pre[t]
\* a trade failed at its second tick after swapping the first, a third tick
\* being ordered after it
C7_Witness ==
    /\ last.op = "trade"
    /\ last.res = "InsufficientLiquidity"
    /\ Len(last.hops) = 2
    /\ last.hops[1].res = "ok"
    /\ Len(ticks) = 3
    /\ PosOf(last.hops[2].idx) = 2
    /\ ticks[last.hops[1].idx] # last.pre[last.hops[1].idx]

\* C8: a swap that returns one of its four errors leaves the pool's reserves
\* and radius (and orbital_pool.json) as they were.
C8_FailedSwapLeavesPool ==
    (last.op = "cli_swap" /\ last.res \in SwapErrors) =>
        /\ last.post.reserves = last.pre.reserves
        /\ last.post.radius = last.pre.radius
        /\ pool = <<last.pre>>
\* a swap failed for want of liquidity
C8_Witness ==
    /\ last.op = "cli_swap"
    /\ last.res = "InsufficientLiquidity"
    /\ last.amount > 0

\* C9: a withdrawal of 1.0 removes the LP's entry and leaves every other LP's
\* shares; a withdrawal of less than 1 - 1e-12 keeps the entry, less
\* shares_to_remove = lp_shares[lp_id] * percentage.
C9_WithdrawBookkeeping ==
    (last.op = "remove_liquidity" /\ last.res = "ok") =>
        LET before == last.pre[last.tick_index].lp_shares
            now == ticks[last.tick_index].lp_shares
        IN  /\ last.percentage = Lit(1) =>
                  /\ last.lp_id \notin DOMAIN now
                  /\ DOMAIN now = DOMAIN before \ {last.lp_id}
                  /\ \A l \in DOMAIN now : now[l] = before[l]
            /\ FLt(last.percentage, FSub(Lit(1), Eps12)) =>
                  /\ DOMAIN now = DOMAIN before
                  /\ now[last.lp_id] =
                        FSub(before[last.lp_id], FMul(before[last.lp_id], last.percentage))
\* an LP withdrew everything from a tick another LP has shares in
C9_Witness ==
    /\ last.op = "remove_liquidity"
    /\ last.res = "ok"
    /\ last.percentage = Lit(1)
    /\ DOMAIN ticks[last.tick_index].lp_shares # {}
    /\ last.lp_id \in DOMAIN last.pre[last.tick_index].lp_shares

LiquidityErrors == {"InvalidPercentage", "LPNotFound", "ZeroShares", "LengthMismatch"}

\* C10: a withdrawal refused for its percentage, an unknown LP or zero shares,
\* and a deposit refused for the length of its amounts, leave the tick's
\* reserves, radius and LP shares as they were.
C10_FailedLiquidityLeavesTick ==
    ( /\ last.op \in {"add_liquidity", "remove_liquidity"}
      /\ last.res \in LiquidityErrors )
    => LET before == last.pre[last.tick_index]
           now == ticks[last.tick_index]
       IN  /\ now.sphere_amm.reserves = before.sphere_amm.reserves
           /\ now.sphere_amm.radius = before.sphere_amm.radius
           /\ now.lp_shares = before.lp_shares
\* a deposit was refused for the length of its amounts
C10_Witness ==
    /\ last.op = "add_liquidity"
    /\ last.res = "LengthMismatch"

\* C11: after any sequence of add-liquidity and remove-liquidity requests, every
\* value in every tick's lp_shares is non-negative.
C11_LpSharesNonNegative ==
    \A t \in 1..Len(ticks) :
        \A l \in DOMAIN ticks[t].lp_shares : FGe(ticks[t].lp_shares[l], 0)

\* what the add-tick request is to be refused for
InvalidTick(plane, reserves) ==
    \/ Len(reserves) # Len(token_names)
    \/ \E i \in 1..Len(reserves) : FLt(reserves[i], 0)
    \/ FLe(plane, 0)

\* C12: an add-tick request whose reserves differ in length from the token
\* names, or hold a negative reserve, or whose plane constant is not positive,
\* is answered with an error, and leaves the ticks, global_reserves and
\* multi_tick.json as they were.
C12_AddTickValidation ==
    [][ (last'.op = "tick" /\ InvalidTick(last'.plane, last'.reserves))
        => (last'.res \notin {"ok", "panic"} /\ UNCHANGED ammVars) ]_vars

\* C13: a trade request with amount <= 0 is answered with the invalid-amount
\* error and changes nothing; route_trade does not return Ok for it.
C13_NonPositiveTradeRejected ==
    [][ (last'.op = "trade" /\ FLe(last'.amount, 0))
        => (last'.res = "InvalidAmount" /\ UNCHANGED ammVars) ]_vars

\* worker w is between its first and its last access of the aggregator
Accessing(w) == handlers[w].pc \notin {"idle", "lock"}

\* C14: a handler that is between its first and its last access of the
\* aggregator (the routing loop and the save included) holds the Mutex, no two
\* handlers are there together, and no get_state answer is put together from
\* an aggregator that was written between its reads.
C14_HandlersSerialized ==
    /\ \A w \in Workers : Accessing(w) => lock.holder = w
    /\ \A w1, w2 \in Workers : (Accessing(w1) /\ Accessing(w2)) => w1 = w2
    /\ \A w \in Workers : handlers[w].pc = "return" => ~handlers[w].torn
    /\ (last.op = "state" => ~last.torn)
\* a trade has swapped one tick and is about to swap the next, while a state
\* request waits for the Mutex
C14_Witness ==
    \E w1, w2 \in Workers :
        /\ handlers[w1].pc = "hop"
        /\ handlers[w1].k = 2
        /\ Len(handlers[w1].idxs) >= 2
        /\ Len(handlers[w1].hops) = 1
        /\ FGt(handlers[w1].amount, 0)
        /\ handlers[w2].pc = "lock"
        /\ handlers[w2].req.op = "state"

\* of the last trade: the plane constant of tick t, its from-token reserve
\* before the call, the ticks swapped, and the amount left before hop n
PlaneOf(t) == last.pre[t].plane_constant
AvailableOf(t) ==
    last.pre[t].sphere_amm.reserves[IndexOf(last.pre[t].sphere_amm, last.from)]
Swapped == { last.hops[n].idx : n \in 1..Len(last.hops) }
RemainingBefore(n) ==
    FSub(last.amount, FSum([m \in 1..(n - 1) |-> last.hops[m].trade_in]))

\* C15: a trade swaps its ticks in ascending plane_constant order, each tick
\* at most once, each with trade_in = min(amount left, 0.9 * the tick's
\* from-token reserve); a tick of lower plane_constant than a swapped tick was
\* itself swapped before it or skipped for a from-token reserve <= 1e-12, and
\* no tick with such a reserve is swapped.
C15_RoutingOrder ==
    last.op = "trade" =>
        /\ \A n, m \in 1..Len(last.hops) :
              n < m => /\ last.hops[n].idx # last.hops[m].idx
                       /\ PlaneOf(last.hops[n].idx) <= PlaneOf(last.hops[m].idx)
                       /\ last.hops[n].res = "ok"
        /\ \A n \in 1..Len(last.hops) :
              LET t == last.hops[n].idx
              IN  /\ ~FLe(AvailableOf(t), Eps12)
                  /\ last.hops[n].trade_in =
                        FMin(RemainingBefore(n), FMul(AvailableOf(t), NineTenths))
                  /\ \A u \in 1..Len(last.pre) :
                        (PlaneOf(u) < PlaneOf(t) /\ u \notin Swapped)
                            => FLe(AvailableOf(u), Eps12)
\* a trade swapped the tick added second, of the lower plane constant, before
\* the tick added first
C15_Witness ==
    /\ last.op = "trade"
    /\ last.res = "ok"
    /\ Len(last.hops) = 2
    /\ last.hops[1].idx = 2
    /\ last.hops[2].idx = 1
    /\ PlaneOf(2) < PlaneOf(1)
    /\ last.hops[2].trade_in < last.amount

\* C16: after a successful add-liquidity, remove-liquidity or set-reserves
\* request the tick's radius is the radius SphereAMM::new computes from the
\* tick's reserves.
C16_ResolveMatchesConstruction ==
    ( /\ last.op \in {"add_liquidity", "remove_liquidity", "set_reserves"}
      /\ last.res = "ok" )
    => LET now == ticks[last.tick_index].sphere_amm
       IN  now.radius = NewSphere(now.token_names, now.reserves).radius

\* of the last price request: the weight of tick t (its from-token reserve),
\* the ticks of non-zero weight, in order, and the two sums over them
WeightOf(t) ==
    last.pre[t].sphere_amm.reserves[IndexOf(last.pre[t].sphere_amm, last.from)]
Weighted == SelectSeq([t \in 1..Len(last.pre) |-> t], LAMBDA t : ~FEq(WeightOf(t), 0))
SpotOf(t) == GetSpotPrice(last.pre[t].sphere_amm, last.from, last.to)
WeightedPriceSum ==
    FSum([n \in 1..Len(Weighted) |-> FMul(SpotOf(Weighted[n]).price, WeightOf(Weighted[n]))])
WeightSum == FSum([n \in 1..Len(Weighted) |-> WeightOf(Weighted[n])])
\* what C17 says of every price request for a token of the aggregator, but for
\* its last sentence
PriceIsWeightedAverage ==
    /\ ticks = last.pre /\ global_reserves = last.pre_global /\ saved = last.pre_saved
    /\ last.res = "ok" => last.price = FDiv(WeightedPriceSum, WeightSum)
    /\ last.res = "NoLiquidityForPrice" <=> FEq(WeightSum, 0)

MagnitudeOf(i) ==
    FDiv(FSum(ticks[i].sphere_amm.reserves), FSqrt(Lit(Len(ticks[i].sphere_amm.reserves))))
Range(s) == { s[k] : k \in 1..Len(s) }
Increasing(s) == \A k, m \in 1..Len(s) : k < m => s[k] < s[m]

\* C18: classify_ticks lists tick i as interior iff (sum of reserves)/sqrt(n)
\* > plane_constant + 1e-6 and as boundary iff |(sum of reserves)/sqrt(n) -
\* plane_constant| < 1e-6; no tick is in both lists, and each list is in
\* insertion order.
C18_ClassifyTicks ==
    last.op = "classify" =>
        /\ \A i \in 1..Len(ticks) :
              /\ i \in Range(last.interior)
                    <=> FGt(MagnitudeOf(i), FAdd(ticks[i].plane_constant, Eps6))
              /\ i \in Range(last.boundary)
                    <=> FLe(FAbs(FSub(MagnitudeOf(i), ticks[i].plane_constant)), Eps6)
        /\ Range(last.interior) \cup Range(last.boundary) \subseteq 1..Len(ticks)
        /\ Range(last.interior) \cap Range(last.boundary) = {}
        /\ Increasing(last.interior)
        /\ Increasing(last.boundary)
\* three ticks were classified: one interior, one boundary, one exterior
C18_Witness ==
    /\ last.op = "classify"
    /\ Len(ticks) = 3
    /\ Len(last.interior) = 1
    /\ Len(last.boundary) = 1
    /\ \A i \in 1..Len(ticks) : IsFinite(MagnitudeOf(i))

\* C19: a successful add_liquidity(lp_id, amounts) adds amounts[i] to
\* reserves[i] for every token, adds the sum of the amounts to lp_shares[lp_id]
\* (an absent entry starting from 0), and leaves the other LPs' shares, the
\* plane constant and the token names as they were.
C19_AddLiquidityEffects ==
    (last.op = "add_liquidity" /\ last.res = "ok") =>
        LET before == last.pre[last.tick_index]
            now == ticks[last.tick_index]
            held == IF last.lp_id \in DOMAIN before.lp_shares
                    THEN before.lp_shares[last.lp_id] ELSE 0
        IN  /\ Len(now.sphere_amm.reserves) = Len(before.sphere_amm.reserves)
            /\ \A i \in 1..Len(now.sphere_amm.reserves) :
                  now.sphere_amm.reserves[i] =
                      FAdd(before.sphere_amm.reserves[i], last.amounts[i])
            /\ DOMAIN now.lp_shares = DOMAIN before.lp_shares \cup {last.lp_id}
            /\ now.lp_shares[last.lp_id] = FAdd(held, FSum(last.amounts))
            /\ \A l \in DOMAIN before.lp_shares \ {last.lp_id} :
                  now.lp_shares[l] = before.lp_shares[l]
            /\ now.plane_constant = before.plane_constant
            /\ now.sphere_amm.token_names = before.sphere_amm.token_names
\* an LP with shares in a tick deposited again, another LP having shares there
C19_Witness ==
    /\ last.op = "add_liquidity"
    /\ last.res = "ok"
    /\ last.lp_id \in DOMAIN last.pre[last.tick_index].lp_shares
    /\ DOMAIN last.pre[last.tick_index].lp_shares # {last.lp_id}
    /\ FGt(FSum(last.amounts), 0)
    /\ FGt(last.pre[last.tick_index].lp_shares[last.lp_id], 0)

\* C20: a swap(from, to, amount_in) that returns Ok leaves reserves[from]
\* larger by amount_in and reserves[to] smaller by the returned output, and
\* the radius, the other reserves and the token names as they were.
C20_SwapFrame ==
    (last.op = "cli_swap" /\ last.res = "ok") =>
        LET i == IndexOf(last.pre, last.from)
            j == IndexOf(last.pre, last.to)
        IN  /\ Len(last.post.reserves) = Len(last.pre.reserves)
            /\ last.post.reserves[i] = FAdd(last.pre.reserves[i], last.amount)
            /\ last.post.reserves[j] = FSub(last.pre.reserves[j], last.out)
            /\ \A k \in 1..Len(last.pre.reserves) :
                  k \notin {i, j} => last.post.reserves[k] = last.pre.reserves[k]
            /\ last.post.radius = last.pre.radius
            /\ last.post.token_names = last.pre.token_names
            /\ pool = <<last.post>>

\* the ratio of a withdrawal: the LP's shares times the percentage, over the sum
\* of all the shares of the tick before the call
RatioOf(before, lp_id, percentage) ==
    FDiv(FMul(before.lp_shares[lp_id], percentage),
         SumShares(before.lp_shares, DOMAIN before.lp_shares))
\* what a successful withdrawal returns: reserves[i] * ratio of the tick's whole
\* reserves, all of them for a sole LP withdrawing 100%
WithdrawnIsProportional ==
    LET before == last.pre[last.tick_index]
        ratio == RatioOf(before, last.lp_id, last.percentage)
    IN  /\ Len(last.withdrawn) = Len(before.sphere_amm.reserves)
        /\ \A i \in 1..Len(last.withdrawn) :
              last.withdrawn[i] = FMul(before.sphere_amm.reserves[i], ratio)
        /\ (DOMAIN before.lp_shares = {last.lp_id} /\ last.percentage = Lit(1))
              => last.withdrawn = before.sphere_amm.reserves

\* C21: a successful withdraw_liquidity(lp_id, percentage) returns
\* withdrawn[i] = reserves[i] * ratio, ratio = lp_shares[lp_id] * percentage /
\* sum of all lp_shares, against the tick's whole reserves, and leaves
\* reserves[i] * (1 - ratio); a sole LP withdrawing 100% receives all reserves.
C21_WithdrawProportional ==
    (last.op = "remove_liquidity" /\ last.res = "ok") =>
        LET before == last.pre[last.tick_index]
            now == ticks[last.tick_index]
            ratio == RatioOf(before, last.lp_id, last.percentage)
        IN  /\ WithdrawnIsProportional
            /\ \A i \in 1..Len(before.sphere_amm.reserves) :
                  now.sphere_amm.reserves[i] =
                      FMul(before.sphere_amm.reserves[i], FSub(Lit(1), ratio))

\* C21, amended: as above, and what is left is reserves[i] - withdrawn[i],
\* the subtraction of the rounded product.
C21_WithdrawSubtracts ==
    (last.op = "remove_liquidity" /\ last.res = "ok") =>
        LET before == last.pre[last.tick_index]
            now == ticks[last.tick_index]
        IN  /\ WithdrawnIsProportional
            /\ Len(now.sphere_amm.reserves) = Len(before.sphere_amm.reserves)
            /\ \A i \in 1..Len(before.sphere_amm.reserves) :
                  now.sphere_amm.reserves[i] =
                      FSub(before.sphere_amm.reserves[i], last.withdrawn[i])
\* one of two LPs with shares withdrew a part of its position from a tick whose
\* reserves exceed the sum of the shares
C21_Witness ==
    /\ last.op = "remove_liquidity"
    /\ last.res = "ok"
    /\ LET before == last.pre[last.tick_index]
           ratio == RatioOf(before, last.lp_id, last.percentage)
       IN  /\ Cardinality(DOMAIN before.lp_shares) = 2
           /\ \A l \in DOMAIN before.lp_shares : FGt(before.lp_shares[l], 0)
           /\ FGt(ratio, 0) /\ FLt(ratio, last.percentage)
           /\ FGt(FSum(before.sphere_amm.reserves),
                  SumShares(before.lp_shares, DOMAIN before.lp_shares))
           /\ \A i \in 1..Len(last.withdrawn) : FGt(last.withdrawn[i], 0)

BoundaryRequests ==
    {"trade", "tick", "set_reserves", "add_liquidity", "remove_liquidity", "reset",
     "reconfigure"}

\* C22: after every request that writes (trade, add tick, set reserves, add or
\* remove liquidity, reset, reconfigure), accepted or refused, multi_tick.json
\* holds the aggregator as it is in memory.
C22_SnapshotMatchesMemory ==
    last.op \in BoundaryRequests =>
        saved = <<Snapshot(ticks, global_reserves, token_names)>>

=============================================================================
